---- MODULE Spec2Model ----
(***************************************************************************)
(* DNS filtering relay (dns_proxy): the wire-format engine of dns_utils.c  *)
(* (name decoder, query parser, the three response builders), the          *)
(* blacklist lookup, and the receive loop of main.c with handle_query and  *)
(* forward_to_upstream.                                                    *)
(*                                                                         *)
(* Buffers are sequences of bytes (0..255); C index i is element i+1.      *)
(* Strings are sequences of character codes.                               *)
(***************************************************************************)
EXTENDS Integers, Sequences, FiniteSets, TLC

VARIABLES
    pc,      \* position of main(): "main", "exited", "recv", "handle", "fwd_*"
    cfg,     \* the Config filled by load_config
    buf0,    \* what main's buf[] held before the first recvfrom (uninitialized)
    buf,     \* the modelled prefix of main's receive buffer buf[BUF_SIZE]
    n,       \* return value of the last recvfrom in main
    res,     \* what handle_query did with the current datagram
    sent,    \* datagrams sent while handling the current datagram, in order
    usock,   \* forward_to_upstream's transient socket: "none", "open", "closed"
    failed,  \* history: some earlier step of the loop ended in a failure
    rounds,  \* history: how many times recvfrom has returned in main's loop
    call     \* the function call under study in the pure-function specifications

vars == <<pc, cfg, buf0, buf, n, res, sent, usock, failed, rounds, call>>

(***************************************************************************)
(* Bounds of the model.                                                    *)
(***************************************************************************)
\* longest label-sequence part of a generated question (bytes before the tail)
MaxName == 4
\* most bytes generated after the label-sequence part (QTYPE/QCLASS area)
MaxTail == 4
\* most returns of recvfrom in one run of main's loop
MaxRecv == 3

(***************************************************************************)
(* Program constants.                                                      *)
(***************************************************************************)
BUF_SIZE == 1500
\* size of the DNS header, the fixed offset of the question section
HDR == 12
\* maxlen passed by parse_dns_query, the size of handle_query's domain[]
DOMAIN_MAX == 256
\* TTL handle_query passes to build_fake_a_response
FAKE_TTL == 300

(***************************************************************************)
(* Helpers.                                                                *)
(***************************************************************************)
At(b, i) == b[i + 1]

Min(a, b) == IF a < b THEN a ELSE b

\* the C bytes b[from .. from+cnt-1]
Bytes(b, from, cnt) == SubSeq(b, from + 1, from + cnt)

SeqsUpTo(S, k) == UNION {[1..m -> S] : m \in 0..k}

\* a char array read as a C string: the bytes before the first NUL
CStr(s) ==
    LET nuls == {i \in 1..Len(s) : s[i] = 0}
    IN  IF nuls = {} THEN s
        ELSE SubSeq(s, 1, (CHOOSE i \in nuls : \A j \in nuls : i <= j) - 1)

\* tolower() in the C locale
ToLower(c) == IF c >= 65 /\ c <= 90 THEN c + 32 ELSE c

LowerStr(s) == [i \in 1..Len(s) |-> ToLower(s[i])]

\* variant: strcmp in place of strcasecmp
strcmp_eq(a, b) == a = b

\* strcasecmp(a, b) == 0
strcasecmp_eq(a, b) == LowerStr(a) = LowerStr(b)

(***************************************************************************)
(* extract_domain (dns_utils.c:56-84).                                     *)
(* The result records what was written to domain[], QTYPE, QCLASS, qend    *)
(* and the set of indices of buf that were read.                           *)
(***************************************************************************)
\* the while loop of lines 61-70; st = [i, out, reads], out = domain[0..pos-1]
RECURSIVE extract_labels(_, _, _, _)
extract_labels(b, buf_len, maxlen, st) ==
    IF st.i < buf_len /\ At(b, st.i) # 0
    THEN LET len == At(b, st.i)
             i1  == st.i + 1
             pos == Len(st.out)
         IN  IF pos + len + 1 >= maxlen
             THEN [i |-> i1, out |-> st.out, reads |-> st.reads \cup {st.i}]
             ELSE LET k == Min(len, buf_len - i1)
                  IN  extract_labels(b, buf_len, maxlen,
                        [i     |-> i1 + k,
                         out   |-> st.out \o Bytes(b, i1, k) \o <<46>>,
                         reads |-> st.reads \cup {st.i} \cup (i1 .. (i1 + k - 1))])
    ELSE [i     |-> st.i,
          out   |-> st.out,
          reads |-> st.reads \cup (IF st.i < buf_len THEN {st.i} ELSE {})]

\* variant: the trailing separator is not stripped (line 72 writes no NUL over it)
extract_domain_keeps_separator(b, buf_len, maxlen) ==
    LET lp  == extract_labels(b, buf_len, maxlen,
                              [i |-> HDR, out |-> <<>>, reads |-> {}])
        raw == lp.out \o <<0>>
    IN  [raw    |-> raw,
         domain |-> CStr(raw),
         qtype  |-> IF lp.i + 4 <= buf_len THEN At(b, lp.i + 1) * 256 + At(b, lp.i + 2)
                                           ELSE 0,
         qclass |-> IF lp.i + 4 <= buf_len THEN At(b, lp.i + 3) * 256 + At(b, lp.i + 4)
                                           ELSE 0,
         qend   |-> IF lp.i + 4 <= buf_len THEN lp.i + 5 ELSE lp.i,
         reads  |-> lp.reads \cup (IF lp.i + 4 <= buf_len
                                    THEN (lp.i + 1) .. (lp.i + 4) ELSE {})]

extract_domain(b, buf_len, maxlen) ==
    LET lp  == extract_labels(b, buf_len, maxlen,
                              [i |-> HDR, out |-> <<>>, reads |-> {}])
        pos == Len(lp.out)
        raw == IF pos > 0 THEN SubSeq(lp.out, 1, pos - 1) \o <<0>> ELSE <<0>>
    IN  IF lp.i + 4 <= buf_len
        THEN LET i == lp.i + 1
             IN  [raw    |-> raw,
                  domain |-> CStr(raw),
                  qtype  |-> At(b, i) * 256 + At(b, i + 1),
                  qclass |-> At(b, i + 2) * 256 + At(b, i + 3),
                  qend   |-> i + 4,
                  reads  |-> lp.reads \cup (i .. (i + 3))]
        ELSE [raw    |-> raw,
              domain |-> CStr(raw),
              qtype  |-> 0,
              qclass |-> 0,
              qend   |-> lp.i,
              reads  |-> lp.reads]

(***************************************************************************)
(* parse_dns_query (dns_utils.c:36-40).                                    *)
(***************************************************************************)
parse_dns_query(b, len) ==
    LET e == extract_domain(b, len, DOMAIN_MAX)
    IN  [ret    |-> IF At(e.raw, 0) # 0 THEN 0 ELSE -1,
         domain |-> e.domain,
         type   |-> e.qtype,
         class  |-> e.qclass,
         reads  |-> e.reads]

(***************************************************************************)
(* is_blacklisted (dns_utils.c:96-101).                                    *)
(***************************************************************************)
is_blacklisted(name, c) ==
    IF \E k \in 1..Len(c.blacklist) : strcasecmp_eq(name, c.blacklist[k])
    THEN 1 ELSE 0

(***************************************************************************)
(* inet_pton(AF_INET, ...) as called at dns_utils.c:172 and :275: a        *)
(* dotted quad of decimal octets, no leading zeros, each at most 255.      *)
(* The result is the 4 address octets, or <<>> when the literal is not     *)
(* accepted (inet_pton does not return 1).                                 *)
(***************************************************************************)
IsDigit(c) == c >= 48 /\ c <= 57

\* st = [done: completed octets, cur: octet being read, saw: a digit was seen]
RECURSIVE inet_pton_scan(_, _)
inet_pton_scan(s, st) ==
    IF s = <<>>
    THEN IF st.saw /\ Len(st.done) = 3 THEN st.done \o <<st.cur>> ELSE <<>>
    ELSE LET ch == Head(s)
         IN  IF IsDigit(ch)
             THEN LET new == st.cur * 10 + (ch - 48)
                  IN  IF (st.saw /\ st.cur = 0) \/ new > 255
                         \/ (~st.saw /\ Len(st.done) = 4)
                      THEN <<>>
                      ELSE inet_pton_scan(Tail(s),
                             [done |-> st.done, cur |-> new, saw |-> TRUE])
             ELSE IF ch = 46 /\ st.saw
                  THEN IF Len(st.done) = 3
                       THEN <<>>
                       ELSE inet_pton_scan(Tail(s),
                              [done |-> st.done \o <<st.cur>>, cur |-> 0,
                               saw |-> FALSE])
                  ELSE <<>>

inet_pton(s) == inet_pton_scan(s, [done |-> <<>>, cur |-> 0, saw |-> FALSE])

\* variant: the TTL stored without htonl on a little-endian host
host_order_bytes(ttl) ==
    <<ttl % 256, (ttl \div 256) % 256, (ttl \div 65536) % 256,
      (ttl \div 16777216) % 256>>

\* htonl((uint32_t)ttl) laid out in memory: the 4 bytes of the two's-complement
\* value of ttl, most significant first
htonl_bytes(ttl) ==
    <<(ttl \div 16777216) % 256, (ttl \div 65536) % 256,
      (ttl \div 256) % 256, ttl % 256>>

\* `while (i < req_len && req[i] != 0) i++;` (dns_utils.c:139, :202, :236)
RECURSIVE scan_zero(_, _, _)
scan_zero(req, req_len, i) ==
    IF i < req_len /\ At(req, i) # 0 THEN scan_zero(req, req_len, i + 1) ELSE i

(***************************************************************************)
(* The response builders.  A result is [ret, resp]: the return value and   *)
(* the bytes written to the output buffer, which are always the indices    *)
(* 0 .. Len(resp)-1 (every builder writes from index 0 upwards).           *)
(***************************************************************************)
\* build_fake_a_response (dns_utils.c:117-177)
build_fake_a_response(req, req_len, resp_cap, fake_ip, ttl) ==
    IF req_len < 12 THEN [ret |-> -1, resp |-> <<>>]
    ELSE
    LET flags2 == 132 + (At(req, 2) % 2)
        flags3 == 128
        hdr    == <<At(req, 0), At(req, 1), flags2, flags3,
                    At(req, 4), At(req, 5), 0, 1, 0, 0, 0, 0>>
        i      == scan_zero(req, req_len, 12)
        qd_len == (i - 12) + 1 + 4
        offset == 12 + qd_len
        quest  == hdr \o Bytes(req, 12, qd_len)
        rr     == quest \o <<192, 12, 0, 1, 0, 1>> \o htonl_bytes(ttl) \o <<0, 4>>
        addr   == inet_pton(fake_ip)
    IN  IF i >= req_len - 4 THEN [ret |-> -1, resp |-> hdr]
        ELSE IF 12 + qd_len > resp_cap THEN [ret |-> -1, resp |-> hdr]
        ELSE IF offset + 16 > resp_cap THEN [ret |-> -1, resp |-> quest]
        ELSE IF addr = <<>> THEN [ret |-> -1, resp |-> rr]
        ELSE [ret |-> offset + 16, resp |-> rr \o addr]

\* build_nxdomain_response (dns_utils.c:190-211)
build_nxdomain_response(req, req_len, resp_cap) ==
    IF req_len < 12 THEN [ret |-> -1, resp |-> <<>>]
    ELSE
    LET hdr    == <<At(req, 0), At(req, 1), 129, 131, 0, 1, 0, 0, 0, 0, 0, 0>>
        i      == scan_zero(req, req_len, 12)
        qd_len == (i - 12) + 1 + 4
    IN  IF i >= req_len - 4 THEN [ret |-> -1, resp |-> hdr]
        ELSE IF 12 + qd_len > resp_cap THEN [ret |-> -1, resp |-> hdr]
        ELSE [ret |-> 12 + qd_len, resp |-> hdr \o Bytes(req, 12, qd_len)]

\* variant: the REFUSED builder left with the NXDOMAIN builder's flags
refused_with_nxdomain_flags(req, req_len, resp_cap) ==
    build_nxdomain_response(req, req_len, resp_cap)

\* build_refused_response (dns_utils.c:224-245)
build_refused_response(req, req_len, resp_cap) ==
    IF req_len < 12 THEN [ret |-> -1, resp |-> <<>>]
    ELSE
    LET hdr    == <<At(req, 0), At(req, 1), 129, 133, 0, 1, 0, 0, 0, 0, 0, 0>>
        i      == scan_zero(req, req_len, 12)
        qd_len == (i - 12) + 1 + 4
    IN  IF i >= req_len - 4 THEN [ret |-> -1, resp |-> hdr]
        ELSE IF 12 + qd_len > resp_cap THEN [ret |-> -1, resp |-> hdr]
        ELSE [ret |-> 12 + qd_len, resp |-> hdr \o Bytes(req, 12, qd_len)]

(***************************************************************************)
(* Inputs of the pure-function specifications.                             *)
(***************************************************************************)
\* the header of the unit test's query (test_dns_utils.c:54-59): RD set, QDCOUNT 1
TestHeader == <<18, 52, 1, 0, 0, 1, 0, 0, 0, 0, 0, 0>>

\* a header with RD clear, QDCOUNT 2 and non-zero AN/NS/AR counts
OddHeader == <<171, 205, 0, 0, 0, 2, 0, 1, 0, 1, 0, 1>>

\* the example.com query of the unit test (test_dns_utils.c:53-65)
TestQuery ==
    TestHeader \o <<7, 101, 120, 97, 109, 112, 108, 101, 3, 99, 111, 109, 0>>
               \o <<0, 1, 0, 1>>

\* bytes after the label part: prefixes of 00 01 00 01 .. and of 02 01 02 01 ..
TailByte(p, i) == IF p = 1 THEN (IF i % 2 = 0 THEN 1 ELSE 0)
                           ELSE (IF i % 2 = 0 THEN 1 ELSE 2)

Tails == {[i \in 1..k |-> TailByte(p, i)] : k \in 0..MaxTail, p \in 1..2}

\* label-part bytes for the decoder: terminator, lengths 1 and 2, 'a', 0xC0
DecNameBytes == {0, 1, 2, 97, 192}

\* label-part bytes for the builders, which only look for the first zero byte
BldNameBytes == {0, 97}

Questions(S) == {nm \o tl : nm \in SeqsUpTo(S, MaxName), tl \in Tails}

ShortBufs == {SubSeq(TestHeader, 1, k) : k \in 0..(HDR - 1)}

\* a label of k letters 'a' with its length byte
LabelOfA(k) == <<k>> \o [i \in 1..k |-> 97]

\* a name of 252 octets, the longest below 253: labels of 63, 63, 63 and 58 letters
LongName == LabelOfA(63) \o LabelOfA(63) \o LabelOfA(63) \o LabelOfA(58) \o <<0>>

\* question names with label structure: "a", "a.b" as two labels, "a.b" as one
\* label holding a '.', a label holding a zero octet, a name that is the pointer
\* C0 0C, a label followed by that pointer
LabelledNames ==
    { <<1, 97, 0>>, <<1, 97, 1, 98, 0>>, <<3, 97, 46, 98, 0>>, <<2, 97, 0, 0>>,
      <<192, 12>>, <<1, 97, 192, 12>> }

\* the labelled names and the long name, each followed by 0 .. MaxTail tail bytes
LabelledQuestions ==
    {nm \o tl : nm \in LabelledNames \cup {LongName}, tl \in Tails}

DecBufs ==
    ShortBufs \cup {TestQuery}
      \cup {TestHeader \o q : q \in Questions(DecNameBytes) \cup LabelledQuestions}

\* maxlen arguments: the one parse_dns_query passes and one small enough to truncate
DecMaxLens == {DOMAIN_MAX, 4}

\* what the byte just past the caller's buf_len bytes may hold
OobBytes == {0, 7}

BldReqs ==
    ShortBufs \cup {TestQuery}
      \cup {h \o q : h \in {TestHeader, OddHeader}, q \in Questions(BldNameBytes)}
      \cup {TestHeader \o nm \o tl : nm \in LabelledNames, tl \in Tails}

\* output capacities tried for a request: everything up to the header size, the
\* sizes around the request's own length with and without the answer record,
\* and the capacity handle_query uses
BldCaps(req) ==
    (0..HDR) \cup {c \in {Len(req) - 1, Len(req), Len(req) + 15, Len(req) + 16} :
                      c >= 0}
             \cup {BUF_SIZE}

\* IPv4 literals with the octets a correct parse yields (<<>>: not a dotted quad)
\* "1.2.3.4", "10.0.0.255", "1.2.3", "1.2.3.256", "1.2.3.4.5", "a.b.c.d", ""
FakeIps ==
    { [lit |-> <<49, 46, 50, 46, 51, 46, 52>>,               octets |-> <<1, 2, 3, 4>>],
      [lit |-> <<49, 48, 46, 48, 46, 48, 46, 50, 53, 53>>,   octets |-> <<10, 0, 0, 255>>],
      [lit |-> <<49, 46, 50, 46, 51>>,                       octets |-> <<>>],
      [lit |-> <<49, 46, 50, 46, 51, 46, 50, 53, 54>>,       octets |-> <<>>],
      [lit |-> <<49, 46, 50, 46, 51, 46, 52, 46, 53>>,       octets |-> <<>>],
      [lit |-> <<97, 46, 98, 46, 99, 46, 100>>,              octets |-> <<>>],
      [lit |-> <<>>,                                         octets |-> <<>>] }

\* TTLs: the unit test's, handle_query's, one with four distinct bytes, a negative one
Ttls == {60, FAKE_TTL, 16909060, -1}

\* the loop's variables are not used by the pure-function specifications
LoopIdle ==
    /\ pc = "fn" /\ cfg = <<>> /\ buf0 = <<>> /\ buf = <<>> /\ n = 0
    /\ res = <<>> /\ sent = <<>> /\ usock = "none" /\ failed = FALSE
    /\ rounds = 0

LoopVars == <<pc, cfg, buf0, buf, n, res, sent, usock, failed, rounds>>

(***************************************************************************)
(* DecSpec: the name decoder and the query parser applied to a buffer.     *)
(***************************************************************************)
DecInit ==
    /\ LoopIdle
    /\ call \in {[fn |-> "input", req |-> b] : b \in DecBufs}

\* extract_domain(buf, buf_len, domain, maxlen, &qtype, &qclass, &qend)
DecExtract ==
    /\ call.fn = "input"
    /\ \E ml \in DecMaxLens, v \in OobBytes :
         call' = [fn |-> "extract_domain", req |-> call.req, maxlen |-> ml,
                  out |-> extract_domain(call.req \o <<v>>, Len(call.req), ml)]
    /\ UNCHANGED LoopVars

\* parse_dns_query(buffer, len, domain, &type, &class)
DecParse ==
    /\ call.fn = "input"
    /\ \E v \in OobBytes :
         call' = [fn |-> "parse_dns_query", req |-> call.req,
                  out |-> parse_dns_query(call.req \o <<v>>, Len(call.req))]
    /\ UNCHANGED LoopVars

DecNext == DecExtract \/ DecParse

DecSpec == DecInit /\ [][DecNext]_vars

(***************************************************************************)
(* BldSpec: the three response builders applied to a request.              *)
(***************************************************************************)
BldInit ==
    /\ LoopIdle
    /\ call \in UNION {{[fn |-> "input", req |-> r, resp_cap |-> c] :
                            c \in BldCaps(r)} : r \in BldReqs}

BldFake ==
    /\ call.fn = "input"
    /\ \E ip \in FakeIps, ttl \in Ttls :
         call' = [fn |-> "build_fake_a_response", req |-> call.req,
                  resp_cap |-> call.resp_cap, ip |-> ip, ttl |-> ttl,
                  out |-> build_fake_a_response(call.req, Len(call.req),
                                                call.resp_cap, ip.lit, ttl)]
    /\ UNCHANGED LoopVars

BldNxdomain ==
    /\ call.fn = "input"
    /\ call' = [fn |-> "build_nxdomain_response", req |-> call.req,
                resp_cap |-> call.resp_cap,
                out |-> build_nxdomain_response(call.req, Len(call.req),
                                                call.resp_cap)]
    /\ UNCHANGED LoopVars

BldRefused ==
    /\ call.fn = "input"
    /\ call' = [fn |-> "build_refused_response", req |-> call.req,
                resp_cap |-> call.resp_cap,
                out |-> build_refused_response(call.req, Len(call.req),
                                               call.resp_cap)]
    /\ UNCHANGED LoopVars

BldNext == BldFake \/ BldNxdomain \/ BldRefused

BldSpec == BldInit /\ [][BldNext]_vars

(***************************************************************************)
(* handle_query (main.c:39-76) up to the hand-over to forward_to_upstream. *)
(* b is the memory at `buffer` (main's buf), len the datagram's length.    *)
(* The result records the state reached (outcome), what was printed        *)
(* (logged), the builders invoked in order, the value of response_len,     *)
(* the bytes handed to sendto and whether forward_to_upstream is called.   *)
(***************************************************************************)
\* main.c:57-64: the builder named by cfg->response, and its result
select_builder(c) ==
    IF c.response = "FAKE" THEN <<"build_fake_a_response">>
    ELSE IF c.response = "NXDOMAIN" THEN <<"build_nxdomain_response">>
    ELSE IF c.response = "REFUSED" THEN <<"build_refused_response">>
    ELSE <<>>

build_response(b, len, c) ==
    IF c.response = "FAKE"
    THEN build_fake_a_response(b, len, BUF_SIZE, c.fake_ip, FAKE_TTL)
    ELSE IF c.response = "NXDOMAIN" THEN build_nxdomain_response(b, len, BUF_SIZE)
    ELSE IF c.response = "REFUSED" THEN build_refused_response(b, len, BUF_SIZE)
    ELSE [ret |-> 0, resp |-> <<>>]

\* variant: the blacklisted branch without its `return` (main.c:71)
blacklisted_without_return(p, r, c) ==
    [outcome |-> "Blacklisted", parse_ret |-> p.ret,
     logged |-> [domain |-> p.domain, type |-> p.type, class |-> p.class],
     builders |-> select_builder(c),
     response_len |-> r.ret,
     response |-> IF r.ret > 0 THEN Bytes(r.resp, 0, r.ret) ELSE <<>>,
     forward |-> TRUE]

\* main.c:51-72: the blacklisted branch, r the selected builder's result
handle_blacklisted(p, r, c) ==
    [outcome |-> "Blacklisted", parse_ret |-> p.ret,
     logged |-> [domain |-> p.domain, type |-> p.type, class |-> p.class],
     builders |-> select_builder(c),
     response_len |-> r.ret,
     response |-> IF r.ret > 0 THEN Bytes(r.resp, 0, r.ret) ELSE <<>>,
     forward |-> FALSE]

\* main.c:44-75 given p, the result of parse_dns_query
handle_parsed(p, b, len, c) ==
    IF p.ret < 0
    THEN [outcome |-> "ParseFailed", parse_ret |-> p.ret, logged |-> <<>>,
          builders |-> <<>>, response_len |-> 0, response |-> <<>>,
          forward |-> FALSE]
    ELSE IF is_blacklisted(p.domain, c) # 0
    THEN handle_blacklisted(p, build_response(b, len, c), c)
    ELSE [outcome |-> "Allowed", parse_ret |-> p.ret,
          logged |-> [domain |-> p.domain, type |-> p.type, class |-> p.class],
          builders |-> <<>>, response_len |-> 0, response |-> <<>>,
          forward |-> TRUE]

handle_query(b, len, c) == handle_parsed(parse_dns_query(b, len), b, len, c)

(***************************************************************************)
(* Inputs of the receive loop.                                             *)
(***************************************************************************)
\* "a", "B": the blacklist; queries ask for a, A, b, c and the empty name
Blacklist == << <<97>>, <<66>> >>

LoopNames == {<<>>, <<97>>, <<65>>, <<98>>, <<99>>}

\* a single-label name as a question name: length byte, label, zero byte
EncodeName(nm) == IF nm = <<>> THEN <<0>> ELSE <<Len(nm)>> \o nm \o <<0>>

\* the longest datagram of the loop: header, one-letter name, MaxTail bytes
LoopMaxLen == HDR + 3 + MaxTail

\* the query for a name: header, question name, then MaxTail bytes 00 01 00 01 ..
LoopQuery(nm) ==
    TestHeader \o EncodeName(nm) \o [i \in 1..MaxTail |-> TailByte(1, i)]

\* a query for every loop name; the query for "a" also cut at every length from
\* one short of the header upwards; and the empty datagram
LoopDatagrams ==
    {LoopQuery(nm) : nm \in LoopNames}
      \cup {SubSeq(LoopQuery(<<97>>), 1, k) : k \in (HDR - 1)..LoopMaxLen}
      \cup {<<>>}

\* "1.2.3.4" and "1.2.3"
GoodIp == <<49, 46, 50, 46, 51, 46, 52>>
BadIp  == <<49, 46, 50, 46, 51>>

\* the Configs load_config can produce (config.c:57-121): the response mode is
\* always one of the three, the other strings are whatever the file holds
Configs ==
    {[response |-> m, fake_ip |-> f, upstream_dns |-> u, blacklist |-> Blacklist] :
        m \in {"FAKE", "NXDOMAIN", "REFUSED"}, f \in {GoodIp, BadIp},
        u \in {GoodIp, BadIp}}

\* replies the upstream resolver may send
Replies == {<<18, 52, 129, 128>>, <<>>}

NoRes == [outcome |-> "none"]

\* dst with its first Len(d) bytes overwritten by d (recvfrom into buf)
Overlay(d, dst) == [i \in 1..Len(dst) |-> IF i <= Len(d) THEN d[i] ELSE dst[i]]

FnIdle == call = [fn |-> "none"]

(***************************************************************************)
(* main (main.c:93-157) and forward_to_upstream (dns_utils.c:261-305).     *)
(***************************************************************************)
Init ==
    /\ pc = "main"
    /\ cfg \in Configs
    /\ buf0 \in {[i \in 1..(LoopMaxLen + 1) |-> v] : v \in OobBytes}
    /\ buf = buf0
    /\ n = 0
    /\ res = NoRes
    /\ sent = <<>>
    /\ usock = "none"
    /\ failed = FALSE
    /\ rounds = 0
    /\ FnIdle

\* main.c:98-133: configuration loaded, socket bound, the loop is entered
MainListen ==
    /\ pc = "main"
    /\ pc' = "recv"
    /\ UNCHANGED <<cfg, buf0, buf, n, res, sent, usock, failed, rounds, call>>

\* main.c:98-101, 116-119, 126-131: load_config, socket or bind failed
MainExit ==
    /\ pc = "main"
    /\ pc' = "exited"
    /\ UNCHANGED <<cfg, buf0, buf, n, res, sent, usock, failed, rounds, call>>

\* main.c:140-141: recvfrom returned a datagram of n >= 0 bytes
RecvDatagram ==
    /\ pc = "recv"
    /\ rounds < MaxRecv
    /\ \E d \in LoopDatagrams :
         /\ buf' = Overlay(d, buf)
         /\ n' = Len(d)
    /\ pc' = "handle"
    /\ res' = NoRes
    /\ sent' = <<>>
    /\ usock' = "none"
    /\ rounds' = rounds + 1
    /\ UNCHANGED <<cfg, buf0, failed, call>>

\* variant: a failed recvfrom ends the process instead of `continue`
RecvErrorExits ==
    /\ pc = "recv"
    /\ rounds < MaxRecv
    /\ n' = -1
    /\ pc' = "exited"
    /\ res' = NoRes
    /\ sent' = <<>>
    /\ usock' = "none"
    /\ failed' = TRUE
    /\ rounds' = rounds + 1
    /\ UNCHANGED <<cfg, buf0, buf, call>>

\* main.c:142-145: recvfrom failed; `continue`
RecvError ==
    /\ pc = "recv"
    /\ rounds < MaxRecv
    /\ n' = -1
    /\ pc' = "recv"
    /\ res' = NoRes
    /\ sent' = <<>>
    /\ usock' = "none"
    /\ failed' = TRUE
    /\ rounds' = rounds + 1
    /\ UNCHANGED <<cfg, buf0, buf, call>>

\* main.c:152 with main.c:39-76: handle_query on buf[0..n-1]; sendto's result
\* is not looked at (main.c:67), so the datagram is recorded as sent
HandleQuery ==
    /\ pc = "handle"
    /\ res' = handle_query(buf, n, cfg)
    /\ sent' = IF res'.response_len > 0
               THEN <<[to |-> "client", data |-> res'.response]>>
               ELSE <<>>
    /\ pc' = IF res'.forward THEN "fwd_socket" ELSE "recv"
    /\ failed' = (failed \/ res'.outcome = "ParseFailed"
                         \/ (res'.outcome = "Blacklisted" /\ res'.response_len <= 0))
    /\ UNCHANGED <<cfg, buf0, buf, n, usock, rounds, call>>

\* dns_utils.c:264: socket() succeeded
FwdSocket ==
    /\ pc = "fwd_socket"
    /\ usock' = "open"
    /\ pc' = "fwd_pton"
    /\ UNCHANGED <<cfg, buf0, buf, n, res, sent, failed, rounds, call>>

\* dns_utils.c:265-268: socket() failed
FwdSocketFail ==
    /\ pc = "fwd_socket"
    /\ pc' = "recv"
    /\ failed' = TRUE
    /\ UNCHANGED <<cfg, buf0, buf, n, res, sent, usock, rounds, call>>

\* dns_utils.c:275: the upstream address parsed
FwdPton ==
    /\ pc = "fwd_pton"
    /\ inet_pton(cfg.upstream_dns) # <<>>
    /\ pc' = "fwd_send"
    /\ UNCHANGED <<cfg, buf0, buf, n, res, sent, usock, failed, rounds, call>>

\* dns_utils.c:275-279: invalid upstream address
FwdPtonFail ==
    /\ pc = "fwd_pton"
    /\ inet_pton(cfg.upstream_dns) = <<>>
    /\ usock' = "closed"
    /\ pc' = "recv"
    /\ failed' = TRUE
    /\ UNCHANGED <<cfg, buf0, buf, n, res, sent, rounds, call>>

\* dns_utils.c:281: the query was sent to the upstream resolver
FwdSend ==
    /\ pc = "fwd_send"
    /\ sent' = Append(sent, [to |-> "upstream", data |-> Bytes(buf, 0, n)])
    /\ pc' = "fwd_wait"
    /\ UNCHANGED <<cfg, buf0, buf, n, res, usock, failed, rounds, call>>

\* dns_utils.c:281-285: sendto upstream failed
FwdSendFail ==
    /\ pc = "fwd_send"
    /\ usock' = "closed"
    /\ pc' = "recv"
    /\ failed' = TRUE
    /\ UNCHANGED <<cfg, buf0, buf, n, res, sent, rounds, call>>

\* dns_utils.c:293, 300-304: a reply arrived and was relayed to the client
FwdReply ==
    /\ pc = "fwd_wait"
    /\ \E r \in Replies :
         sent' = Append(sent, [to |-> "client", data |-> r])
    /\ usock' = "closed"
    /\ pc' = "recv"
    /\ UNCHANGED <<cfg, buf0, buf, n, res, failed, rounds, call>>

\* dns_utils.c:293, 300-304: a reply arrived, sendto to the client failed
FwdRelayFail ==
    /\ pc = "fwd_wait"
    /\ usock' = "closed"
    /\ pc' = "recv"
    /\ failed' = TRUE
    /\ UNCHANGED <<cfg, buf0, buf, n, res, sent, rounds, call>>

\* variant: after a receive failure or timeout the query is sent again
FwdTimeoutRetries ==
    /\ pc = "fwd_wait"
    /\ pc' = "fwd_send"
    /\ failed' = TRUE
    /\ UNCHANGED <<cfg, buf0, buf, n, res, sent, usock, rounds, call>>

\* dns_utils.c:289-298: recvfrom failed or timed out after 2 seconds
FwdTimeout ==
    /\ pc = "fwd_wait"
    /\ usock' = "closed"
    /\ pc' = "recv"
    /\ failed' = TRUE
    /\ UNCHANGED <<cfg, buf0, buf, n, res, sent, rounds, call>>

Next ==
    \/ MainListen \/ MainExit
    \/ RecvDatagram \/ RecvError \/ HandleQuery
    \/ FwdSocket \/ FwdSocketFail \/ FwdPton \/ FwdPtonFail
    \/ FwdSend \/ FwdSendFail \/ FwdReply \/ FwdRelayFail \/ FwdTimeout

Spec == Init /\ [][Next]_vars

LoopPcs == {"recv", "handle", "fwd_socket", "fwd_pton", "fwd_send", "fwd_wait"}

\* control is inside handle_query or forward_to_upstream and moves on
ControlAdvances == pc \in (LoopPcs \ {"recv"}) /\ pc' \in LoopPcs /\ pc' # pc

\* main is sequential code and every statement of the handling code completes:
\* nothing in handle_query blocks, and forward_to_upstream's only wait is
\* bounded by SO_RCVTIMEO (2 seconds, dns_utils.c:288-291).  Waiting in
\* main's recvfrom for the next datagram may last forever.
LiveSpec == Spec /\ WF_pc(ControlAdvances)

(***************************************************************************)
(* Reference notions the properties are stated with.                       *)
(***************************************************************************)
Builders ==
    {"build_fake_a_response", "build_nxdomain_response", "build_refused_response"}

\* the big-endian 16-bit value at C index i
Be16(b, i) == At(b, i) * 256 + At(b, i + 1)

\* four bytes, most significant first, read as a signed 32-bit integer
SignedBe32(bs) ==
    (IF bs[1] >= 128 THEN bs[1] - 256 ELSE bs[1]) * 16777216
      + bs[2] * 65536 + bs[3] * 256 + bs[4]

HasZero(req) == \E i \in HDR..(Len(req) - 1) : At(req, i) = 0

\* index of the first zero byte at or after offset 12
FirstZero(req) ==
    CHOOSE i \in HDR..(Len(req) - 1) :
        At(req, i) = 0 /\ \A j \in HDR..(i - 1) : At(req, j) # 0

\* well-formed for the builders: a terminator with at least 4 bytes after it
WellFormedQuery(req) ==
    Len(req) >= 12 /\ HasZero(req) /\ FirstZero(req) < Len(req) - 4

\* walking the labels from C index i reaches a zero length byte inside the buffer
RECURSIVE LabelsTerminate(_, _)
LabelsTerminate(b, i) ==
    IF i >= Len(b) THEN FALSE
    ELSE IF At(b, i) = 0 THEN TRUE
    ELSE IF i + 1 + At(b, i) > Len(b) THEN FALSE
    ELSE LabelsTerminate(b, i + 1 + At(b, i))

(***************************************************************************)
(* C2: extract_domain never reads a byte of the input buffer at an index   *)
(* >= buf_len, whatever the buffer holds and whatever buf_len is.          *)
(* The code violates it: extract_domain reads buf[buf_len].                *)
(***************************************************************************)
C2_NoReadPastBufLen ==
    call.fn = "extract_domain" =>
        \A i \in call.out.reads : i < Len(call.req)

(***************************************************************************)
(* C3: parse_dns_query returns 0 only with a non-empty domain, and returns *)
(* -1 for every input shorter than 13 bytes and for every input whose      *)
(* label sequence from offset 12 does not reach a zero terminator inside   *)
(* the buffer.  The code violates this property.                          *)
(***************************************************************************)
C3_ParseRejectsMalformed ==
    call.fn = "parse_dns_query" =>
        /\ (call.out.ret = 0 => call.out.domain # <<>>)
        /\ call.out.ret \in {0, -1}
        /\ (Len(call.req) < 13 => call.out.ret = -1)
        /\ (~LabelsTerminate(call.req, HDR) => call.out.ret = -1)

(***************************************************************************)
(* C4: every response a builder produces for a request of at least 12      *)
(* bytes has QDCOUNT = 1, NSCOUNT = 0, ARCOUNT = 0, and ANCOUNT = 1 for    *)
(* fake-A, 0 for NXDOMAIN and REFUSED, whatever counts the request holds.  *)
(* The code violates this property.                                       *)
(***************************************************************************)
C4_ResponseCounts ==
    (call.fn \in Builders /\ Len(call.req) >= 12 /\ call.out.ret # -1) =>
        /\ Be16(call.out.resp, 4) = 1
        /\ Be16(call.out.resp, 6) =
             (IF call.fn = "build_fake_a_response" THEN 1 ELSE 0)
        /\ Be16(call.out.resp, 8) = 0
        /\ Be16(call.out.resp, 10) = 0

(***************************************************************************)
(* C5: for a well-formed query (terminator at z < req_len - 4), a valid    *)
(* dotted quad and any TTL, build_fake_a_response, given room for the      *)
(* response, returns z + 5 + 16 and writes: the transaction ID, flags byte *)
(* 2 = QR|AA|request's RD, flags byte 3 = RA with RCODE 0, ANCOUNT 1, the  *)
(* question bytes req[12..z+4], then C0 0C 00 01 00 01, the TTL big-endian,*)
(* 00 04 and the 4 address octets (45 bytes ending 01 02 03 04 for the     *)
(* example.com query with 1.2.3.4); it returns -1 when req_len < 12, when  *)
(* the query is malformed or when the IP literal does not parse.           *)
(***************************************************************************)
C5_FakeAEncoding ==
    call.fn = "build_fake_a_response" =>
        LET r == call.req
            o == call.out
        IN  IF WellFormedQuery(r) /\ call.ip.octets # <<>>
            THEN LET z == FirstZero(r)
                 IN  call.resp_cap >= z + 21 =>
                       /\ o.ret = z + 5 + 16
                       /\ Len(o.resp) = o.ret
                       /\ Bytes(o.resp, 0, 2) = Bytes(r, 0, 2)
                       /\ At(o.resp, 2) = 128 + 4 + (At(r, 2) % 2)
                       /\ At(o.resp, 3) = 128
                       /\ Be16(o.resp, 6) = 1
                       /\ Bytes(o.resp, 12, z - 12 + 5) = Bytes(r, 12, z - 12 + 5)
                       /\ Bytes(o.resp, z + 5, 6) = <<192, 12, 0, 1, 0, 1>>
                       /\ SignedBe32(Bytes(o.resp, z + 11, 4)) = call.ttl
                       /\ Bytes(o.resp, z + 15, 2) = <<0, 4>>
                       /\ Bytes(o.resp, o.ret - 4, 4) = call.ip.octets
                       /\ (r = TestQuery => o.ret = 45)
            ELSE o.ret = -1

\* the unit test's call produced its 45 bytes ending in 01 02 03 04
C5_Witness ==
    /\ call.fn = "build_fake_a_response"
    /\ call.req = TestQuery
    /\ call.ttl = 60
    /\ call.out.ret = 45
    /\ Bytes(call.out.resp, 41, 4) = <<1, 2, 3, 4>>

(***************************************************************************)
(* C6: for a well-formed query build_nxdomain_response and                 *)
(* build_refused_response, given room for the response, return z + 5 (29   *)
(* for the example.com query) and write: the transaction ID, flags byte 2  *)
(* = QR|RD, flags byte 3 = RA with RCODE 3 (NXDOMAIN) or 5 (REFUSED),      *)
(* QDCOUNT 1, ANCOUNT = NSCOUNT = ARCOUNT = 0 and the question bytes       *)
(* req[12..z+4]; they return -1 when req_len < 12 or the terminator is at  *)
(* or after req_len - 4.                                                   *)
(***************************************************************************)
C6_ErrorResponseEncoding ==
    call.fn \in {"build_nxdomain_response", "build_refused_response"} =>
        LET r == call.req
            o == call.out
        IN  IF WellFormedQuery(r)
            THEN LET z == FirstZero(r)
                 IN  call.resp_cap >= z + 5 =>
                       /\ o.ret = z + 5
                       /\ Len(o.resp) = o.ret
                       /\ Bytes(o.resp, 0, 2) = Bytes(r, 0, 2)
                       /\ At(o.resp, 2) = 128 + 1
                       /\ At(o.resp, 3) \div 16 = 8
                       /\ At(o.resp, 3) % 16 =
                            (IF call.fn = "build_nxdomain_response" THEN 3 ELSE 5)
                       /\ Be16(o.resp, 4) = 1
                       /\ Bytes(o.resp, 6, 6) = <<0, 0, 0, 0, 0, 0>>
                       /\ Bytes(o.resp, 12, z - 12 + 5) = Bytes(r, 12, z - 12 + 5)
                       /\ (r = TestQuery => o.ret = 29)
            ELSE o.ret = -1

\* the REFUSED builder answered the unit test's query with 29 bytes, RCODE 5
C6_Witness ==
    /\ call.fn = "build_refused_response"
    /\ call.req = TestQuery
    /\ call.out.ret = 29
    /\ At(call.out.resp, 3) % 16 = 5

(***************************************************************************)
(* C7: for every capacity resp_cap >= 0 and every request, a builder       *)
(* returns -1 whenever the response would not fit in resp_cap bytes, and   *)
(* never writes to an index >= resp_cap of the output buffer.              *)
(* The code violates this property.                                       *)
(***************************************************************************)
C7_NoWriteBeyondCap ==
    call.fn \in Builders =>
        /\ Len(call.out.resp) <= call.resp_cap
        /\ (WellFormedQuery(call.req) =>
              LET need == FirstZero(call.req) + 5
                            + (IF call.fn = "build_fake_a_response" THEN 16 ELSE 0)
              IN  need > call.resp_cap => call.out.ret = -1)

(***************************************************************************)
(* Reference notions for the receive loop.                                 *)
(***************************************************************************)
IsLetter(ch) == (ch >= 65 /\ ch <= 90) \/ (ch >= 97 /\ ch <= 122)

\* equal up to the case of ASCII letters
SameIgnoringCase(a, b) ==
    /\ Len(a) = Len(b)
    /\ \A i \in 1..Len(a) :
         \/ a[i] = b[i]
         \/ IsLetter(a[i]) /\ IsLetter(b[i]) /\ (a[i] - b[i]) \in {32, -32}

OnBlacklist(name, c) ==
    \E k \in 1..Len(c.blacklist) : SameIgnoringCase(name, c.blacklist[k])

BuilderOfMode(m) ==
    CASE m = "FAKE"     -> "build_fake_a_response"
      [] m = "NXDOMAIN" -> "build_nxdomain_response"
      [] m = "REFUSED"  -> "build_refused_response"

SentTo(dest) == {i \in 1..Len(sent) : sent[i].to = dest}

\* the datagram being handled: the n bytes recvfrom stored
Datagram == Bytes(buf, 0, n)

\* handle_query's result had this datagram been the first one main received
FirstRunResult == handle_query(Overlay(Datagram, buf0), n, cfg)

(***************************************************************************)
(* C1: every datagram passed to handle_query ends in exactly one of three  *)
(* outcomes.  ParseFailed: parse_dns_query failed, nothing is sent, no     *)
(* builder runs.  Blacklisted: the decoded domain equals a blacklist entry *)
(* ignoring case, exactly the builder of the configured mode is invoked,   *)
(* the query is never forwarded, and a failed builder sends nothing.       *)
(* Allowed: the query is handed to forward_to_upstream, no builder runs.   *)
(***************************************************************************)
C1_ThreeOutcomes ==
    res.outcome # "none" =>
        LET p == parse_dns_query(buf, n)
        IN  /\ res.outcome \in {"ParseFailed", "Blacklisted", "Allowed"}
            /\ (res.outcome = "ParseFailed") <=> (p.ret = -1)
            /\ (res.outcome = "Blacklisted") <=>
                   (p.ret = 0 /\ OnBlacklist(p.domain, cfg))
            /\ (res.outcome = "Allowed") <=>
                   (p.ret = 0 /\ ~OnBlacklist(p.domain, cfg))
            /\ res.outcome = "ParseFailed" =>
                   /\ sent = <<>> /\ res.builders = <<>>
                   /\ ~res.forward /\ usock = "none" /\ pc = "recv"
            /\ res.outcome = "Blacklisted" =>
                   /\ res.builders = <<BuilderOfMode(cfg.response)>>
                   /\ ~res.forward /\ usock = "none" /\ pc = "recv"
                   /\ SentTo("upstream") = {}
                   /\ (res.response_len = -1 => sent = <<>>)
            /\ res.outcome = "Allowed" =>
                   /\ res.builders = <<>>
                   /\ res.forward
                   /\ (pc = "fwd_socket" \/ usock # "none" \/ failed)

\* a query for "A" was blocked by the blacklist entry "a" and answered
C1_Witness ==
    /\ res.outcome = "Blacklisted"
    /\ res.logged.domain = <<65>>
    /\ Len(sent) = 1
    /\ sent[1].to = "client"

(***************************************************************************)
(* C8 as stated: no received datagram leads to more than one outbound      *)
(* datagram, counting those of handle_query and of the forwarding step.    *)
(* The code violates it in the Allowed state (query out, reply relayed).   *)
(***************************************************************************)
C8_AtMostOneDatagram == Len(sent) <= 1

(***************************************************************************)
(* C8 amended: no received datagram leads to more than one datagram to     *)
(* the client.  ParseFailed sends nothing; Blacklisted sends at most one   *)
(* datagram, to the client; Allowed sends at most one datagram to the      *)
(* upstream resolver and, only after it, at most one to the client.        *)
(***************************************************************************)
C8_AtMostOneToClient ==
    /\ Cardinality(SentTo("client")) <= 1
    /\ Cardinality(SentTo("upstream")) <= 1
    /\ res.outcome \in {"none", "ParseFailed"} => sent = <<>>
    /\ res.outcome = "Blacklisted" => Len(sent) <= 1 /\ SentTo("upstream") = {}
    /\ res.outcome = "Allowed" =>
           \A i \in SentTo("client") : \E j \in SentTo("upstream") : j < i

\* an allowed query went to the upstream resolver and its reply to the client
C8_Witness ==
    /\ res.outcome = "Allowed"
    /\ Len(sent) = 2
    /\ sent[1].to = "upstream"
    /\ sent[2].to = "client"

(***************************************************************************)
(* C9: failures are local to one query and never end the listening         *)
(* process: once in the loop main never leaves it, every datagram's        *)
(* handling (also after a receive error, a parse failure, a builder        *)
(* failure or a forwarding error or timeout) leads back to recvfrom, and   *)
(* whatever failed before, a datagram is classified and answered as it     *)
(* would have been as the first datagram (fully so when it is well-formed).*)
(***************************************************************************)
C9_FailuresAreLocal ==
    /\ [][(pc \in LoopPcs) => (pc' \in LoopPcs)]_vars
    /\ [](pc \in LoopPcs => <>(pc = "recv"))
    /\ [](res.outcome # "none" =>
            /\ res.outcome = FirstRunResult.outcome
            /\ res.builders = FirstRunResult.builders
            /\ res.response_len = FirstRunResult.response_len
            /\ res.response = FirstRunResult.response
            /\ (WellFormedQuery(Datagram) => res = FirstRunResult))

\* after an earlier failure a blacklisted query got its response
C9_Witness ==
    /\ failed
    /\ pc = "recv"
    /\ res.outcome = "Blacklisted"
    /\ WellFormedQuery(Datagram)
    /\ Len(sent) = 1
    /\ sent[1].data = res.response

(***************************************************************************)
(* C10: what handling a datagram yields (decoded domain, reported QTYPE    *)
(* and QCLASS, blacklist decision, response bytes) depends on that         *)
(* datagram's n bytes and the configuration only, not on the datagrams     *)
(* received before it.  The code violates this property.                  *)
(***************************************************************************)
C10_NoStateBetweenQueries ==
    res.outcome # "none" => res = FirstRunResult

(***************************************************************************)
(* Reference notions for the round trip of a question name.                *)
(***************************************************************************)
\* walking the labels from C index i: the index of the zero length byte that
\* ends the name, every label 1..63 octets long and inside the buffer; else -1
RECURSIVE NameEnd(_, _)
NameEnd(b, i) ==
    IF i >= Len(b) THEN -1
    ELSE IF At(b, i) = 0 THEN i
    ELSE IF At(b, i) > 63 \/ i + 1 + At(b, i) > Len(b) THEN -1
    ELSE NameEnd(b, i + 1 + At(b, i))

\* a valid single-question query: QDCOUNT 1, a name of fewer than 253 octets
\* made of labels of 1..63 octets, followed by QTYPE and QCLASS
ValidQuery(req) ==
    /\ Len(req) >= HDR
    /\ Be16(req, 4) = 1
    /\ NameEnd(req, HDR) >= 0
    /\ NameEnd(req, HDR) - HDR + 1 < 253
    /\ NameEnd(req, HDR) + 4 < Len(req)

\* the encoded question name of a valid query, terminator included
NameBytes(req) == Bytes(req, HDR, NameEnd(req, HDR) - HDR + 1)

\* the octets inside the labels of a name that starts at C index i
RECURSIVE LabelOctets(_, _)
LabelOctets(b, i) ==
    IF i >= Len(b) \/ At(b, i) = 0 THEN {}
    ELSE {At(b, j) : j \in (i + 1) .. Min(i + At(b, i), Len(b) - 1)}
           \cup LabelOctets(b, i + 1 + At(b, i))

\* the parts of s between the separators sep, in order
RECURSIVE SplitAt(_, _)
SplitAt(s, sep) ==
    LET seps == {i \in 1..Len(s) : s[i] = sep}
    IN  IF seps = {} THEN <<s>>
        ELSE LET k == CHOOSE i \in seps : \A j \in seps : i <= j
             IN  <<SubSeq(s, 1, k - 1)>> \o SplitAt(SubSeq(s, k + 1, Len(s)), sep)

\* every part as a length-prefixed label, then the zero byte
RECURSIVE EncodeLabels(_)
EncodeLabels(parts) ==
    IF parts = <<>> THEN <<0>>
    ELSE <<Len(Head(parts))>> \o Head(parts) \o EncodeLabels(Tail(parts))

\* a dotted string re-encoded as a question name; the empty string is the root
Reencode(domain) ==
    IF domain = <<>> THEN <<0>> ELSE EncodeLabels(SplitAt(domain, 46))

(***************************************************************************)
(* C11: for every valid single-question query whose name is shorter than   *)
(* 253 octets, the string extract_domain produces with maxlen 256, split   *)
(* at '.' and re-encoded as length-prefixed labels plus a zero byte, is    *)
(* byte for byte the question name at offset 12.                           *)
(* The code violates this for a label that holds a '.' or a zero octet.    *)
(***************************************************************************)
C11_RoundTrip ==
    (call.fn = "extract_domain" /\ call.maxlen = DOMAIN_MAX
        /\ ValidQuery(call.req))
    => Reencode(call.out.domain) = NameBytes(call.req)

(***************************************************************************)
(* C11, for names whose labels hold neither a '.' (0x2E) nor a zero        *)
(* octet: the decoded string re-encodes to the question name.              *)
(***************************************************************************)
C11_RoundTripPlainLabels ==
    (call.fn = "extract_domain" /\ call.maxlen = DOMAIN_MAX
        /\ ValidQuery(call.req)
        /\ LabelOctets(call.req, HDR) \cap {0, 46} = {})
    => Reencode(call.out.domain) = NameBytes(call.req)

\* the 252-octet name decodes to a string of 250 characters that re-encodes to it
C11_Witness ==
    /\ call.fn = "extract_domain" /\ call.maxlen = DOMAIN_MAX
    /\ ValidQuery(call.req)
    /\ LabelOctets(call.req, HDR) \cap {0, 46} = {}
    /\ NameEnd(call.req, HDR) - HDR + 1 = 252
    /\ Len(call.out.domain) = 250
    /\ Reencode(call.out.domain) = NameBytes(call.req)

(***************************************************************************)
(* Reference notion: how the name that starts at C index i ends for a      *)
(* caller that allows maxlen output bytes, pos of them already used: at a  *)
(* zero length byte ("zero", at that byte), by running out of input        *)
(* ("exhausted", at the end of the buffer), or because the next label      *)
(* does not fit the output ("truncated", at the byte after its length).    *)
(***************************************************************************)
RECURSIVE NameStop(_, _, _, _)
NameStop(b, i, pos, maxlen) ==
    IF i >= Len(b) THEN [kind |-> "exhausted", at |-> Len(b)]
    ELSE IF At(b, i) = 0 THEN [kind |-> "zero", at |-> i]
    ELSE IF pos + At(b, i) + 1 >= maxlen THEN [kind |-> "truncated", at |-> i + 1]
    ELSE LET k == Min(At(b, i), Len(b) - (i + 1))
         IN  NameStop(b, i + 1 + k, pos + k + 1, maxlen)

(***************************************************************************)
(* C12: in extract_domain, when at least 4 bytes follow the terminating    *)
(* zero byte, QTYPE and QCLASS are the big-endian 16-bit values of those   *)
(* 4 bytes and qend is the offset just past them; when fewer than 4 bytes  *)
(* follow it, or the name ended by truncation or input exhaustion, QTYPE   *)
(* and QCLASS are 0 and qend is the current position; qend <= buf_len in   *)
(* every case.  Stated for buffers that hold at least the 12-byte header.  *)
(* The code violates this when exactly 3 bytes follow the terminator.      *)
(***************************************************************************)
C12_TypeClassAndEnd ==
    (call.fn = "extract_domain" /\ Len(call.req) >= HDR) =>
        LET req   == call.req
            st    == NameStop(req, HDR, 0, call.maxlen)
            after == Len(req) - st.at - 1
        IN  /\ (st.kind = "zero" /\ after >= 4)
                  => /\ call.out.qtype = Be16(req, st.at + 1)
                     /\ call.out.qclass = Be16(req, st.at + 3)
                     /\ call.out.qend = st.at + 5
            /\ (st.kind # "zero" \/ after < 4)
                  => /\ call.out.qtype = 0
                     /\ call.out.qclass = 0
                     /\ call.out.qend = st.at
            /\ call.out.qend <= Len(req)

(***************************************************************************)
(* C13: the question boundary a builder uses is the terminator the name    *)
(* decoder stops at: for every query on which parse_dns_query succeeds and *)
(* a builder succeeds, names whose labels hold a zero octet included, 12   *)
(* plus the number of question bytes the builder copied equals the qend    *)
(* that extract_domain reports.                                            *)
(* The code violates this: the builders stop at the first zero byte, the   *)
(* decoder at the first zero length byte.                                  *)
(***************************************************************************)
C13_SameQuestionBoundary ==
    (/\ call.fn \in Builders
     /\ call.out.ret > 0
     /\ parse_dns_query(call.req \o <<0>>, Len(call.req)).ret = 0)
    => LET copied == IF call.fn = "build_fake_a_response"
                     THEN call.out.ret - HDR - 16
                     ELSE call.out.ret - HDR
       IN  HDR + copied
             = extract_domain(call.req \o <<0>>, Len(call.req), DOMAIN_MAX).qend

(***************************************************************************)
(* Reference notion: walking the labels from C index i, whether a length   *)
(* byte with its two high bits set (0xC0..0xFF) is met before the name     *)
(* ends, and the labels before it, each followed by a '.', gathered in acc *)
(***************************************************************************)
RECURSIVE BeforePointer(_, _, _)
BeforePointer(b, i, acc) ==
    IF i >= Len(b) \/ At(b, i) = 0 THEN [ptr |-> FALSE, out |-> acc]
    ELSE IF At(b, i) >= 192 THEN [ptr |-> TRUE, out |-> acc]
    ELSE IF i + 1 + At(b, i) > Len(b) THEN [ptr |-> FALSE, out |-> acc]
    ELSE BeforePointer(b, i + 1 + At(b, i),
                       acc \o Bytes(b, i + 1, At(b, i)) \o <<46>>)

(***************************************************************************)
(* C14: extract_domain does not follow compression pointers and truncates  *)
(* at the pointer byte: when it meets a length byte 0xC0..0xFF the name    *)
(* ends there, so what it writes to the output is the labels before that   *)
(* byte and nothing that follows it.                                       *)
(* The code violates this: it takes the byte for a label length.           *)
(***************************************************************************)
C14_StopsAtPointer ==
    (call.fn = "extract_domain" /\ call.maxlen = DOMAIN_MAX
        /\ BeforePointer(call.req, HDR, <<>>).ptr)
    => LET before == BeforePointer(call.req, HDR, <<>>).out
       IN  call.out.raw = IF before = <<>> THEN <<0>>
                          ELSE SubSeq(before, 1, Len(before) - 1) \o <<0>>

(***************************************************************************)
(* Reference notions for forward_to_upstream.                              *)
(***************************************************************************)
FwdPcs == {"fwd_socket", "fwd_pton", "fwd_send", "fwd_wait"}

\* the order of the stages of forward_to_upstream; 5 is back in main's loop
FwdRank(p) ==
    IF p = "fwd_socket" THEN 1 ELSE IF p = "fwd_pton" THEN 2
    ELSE IF p = "fwd_send" THEN 3 ELSE IF p = "fwd_wait" THEN 4
    ELSE IF p = "recv" THEN 5 ELSE 0

\* one step taken inside forward_to_upstream
FwdStepOk ==
    pc \in FwdPcs =>
        \* every stage is passed at most once: no retry, one send, one receive
        /\ FwdRank(pc') > FwdRank(pc)
        \* the only datagrams sent: the query to the upstream resolver by the
        \* send stage, and one datagram to the client by the receive stage
        /\ \/ sent' = sent
           \/ pc = "fwd_send" /\ pc' = "fwd_wait"
                /\ sent' = Append(sent, [to |-> "upstream", data |-> Datagram])
           \/ pc = "fwd_wait" /\ SentTo("upstream") # {}
                /\ \E r \in Replies :
                      sent' = Append(sent, [to |-> "client", data |-> r])
        \* a stage that gives up sends nothing
        /\ (pc' = "recv" /\ pc # "fwd_wait") => sent' = sent
        \* on return the transient socket, if one was created, is closed
        /\ pc' = "recv" => usock' = IF pc = "fwd_socket" THEN "none" ELSE "closed"
        /\ pc' # "recv" => usock' = "open"

(***************************************************************************)
(* C15: for each allowed query forward_to_upstream sends at most once to   *)
(* the upstream resolver and receives at most once on a transient socket,  *)
(* relays a datagram to the client only after a reply was received, on any *)
(* error or timeout (socket creation, invalid upstream address, send       *)
(* failure, receive failure or timeout) gives the query up without retry   *)
(* and without sending anything to the client, and always terminates with  *)
(* the transient socket closed.                                            *)
(***************************************************************************)
C15_ForwardOnce ==
    /\ [][FwdStepOk]_vars
    /\ [](res.outcome = "Allowed"
            => /\ Cardinality(SentTo("upstream")) <= 1
               /\ Cardinality(SentTo("client")) <= 1
               /\ \A i \in SentTo("client") :
                     \E j \in SentTo("upstream") : j < i)
    /\ [](pc \in FwdPcs => <>(pc = "recv"))

\* a query was sent upstream, its reply relayed, the socket closed, main is
\* back in recvfrom
C15_Witness ==
    /\ pc = "recv"
    /\ res.outcome = "Allowed"
    /\ usock = "closed"
    /\ sent = <<[to |-> "upstream", data |-> Datagram],
                [to |-> "client", data |-> <<18, 52, 129, 128>>]>>

====
